---- MODULE Spec2Model ----
(***************************************************************************)
(* Model of game_score_converter.py: the five validating conversion        *)
(* functions, with the Python built-ins they rest on (isinstance,          *)
(* str.isdigit, int(str, base), int(float), str) modelled by what they do. *)
(*                                                                         *)
(* A Python value is a record [type, chars, n, cls, items]:                *)
(*   str    chars = the sequence of its characters (one token each)        *)
(*   int    n     = its value                                              *)
(*   bool   n     = 1 for True, 0 for False                                *)
(*   float  cls   = "finite" (value n / Scale), "negzero", "nan", "inf",   *)
(*                  "ninf"                                                 *)
(*   list   items = its elements                                           *)
(* A character is a one-character token; the two non-ASCII characters of   *)
(* the model are written by their code points, "U+0663" (ARABIC-INDIC      *)
(* DIGIT THREE, category Nd) and "U+2460" (CIRCLED DIGIT ONE, category No  *)
(* with Numeric_Type=Digit).                                               *)
(***************************************************************************)
EXTENDS Integers, Sequences, FiniteSets, TLC

\* a call of one of the functions by an importing caller, and the record a
\* caller that compares outcomes keeps of its completed calls
VARIABLES call, args, outcome, calls

\* the run of the module as a script: the program counter, the variables of
\* the __main__ block (main_x is the block's x where a function has a
\* parameter of the same name), what has been printed, the exception that ended the
\* run, and the log of the workflow steps that have run
VARIABLES pc, main_mining_score, mining_points, main_combat_score, combat_points,
          main_achievement_hex, achievement_bonus, main_total_score, score_display,
          main_player_name, player_stats, stdout, error, done

callVars == <<call, args, outcome, calls>>

mainVars == <<pc, main_mining_score, mining_points, main_combat_score, combat_points,
              main_achievement_hex, achievement_bonus, main_total_score, score_display,
              main_player_name, player_stats, stdout, error, done>>

vars == <<callVars, mainVars>>

(* ------------------------------ bounds -------------------------------- *)

\* longest input string
MaxLen == 3
\* completed calls a comparing caller keeps on record
MaxCalls == 2
\* largest magnitude of an integer input
MaxInt == 1100
\* decimal places of a finite float input
FracDigits == 2
\* largest whole part of a finite float input
MaxWhole == 2

(* ------------------------------ values -------------------------------- *)

RECURSIVE Pow(_, _)
Pow(b, e) == IF e = 0 THEN 1 ELSE b * Pow(b, e - 1)

Scale == Pow(10, FracDigits)

MkVal(t, cs, k, c, it) == [type |-> t, chars |-> cs, n |-> k, cls |-> c, items |-> it]

StrV(cs) == MkVal("str", cs, 0, "", <<>>)

IntV(k) == MkVal("int", <<>>, k, "", <<>>)

BoolV(b) == MkVal("bool", <<>>, IF b THEN 1 ELSE 0, "", <<>>)

FloatV(m) == MkVal("float", <<>>, m, "finite", <<>>)

SpecialFloatV(c) == MkVal("float", <<>>, 0, c, <<>>)

NoneV == MkVal("NoneType", <<>>, 0, "", <<>>)

ListV(it) == MkVal("list", <<>>, 0, "", it)

OtherV(t) == MkVal(t, <<>>, 0, "", <<>>)

(* ----------------------------- characters ----------------------------- *)

AsciiDigits == <<"0", "1", "2", "3", "4", "5", "6", "7", "8", "9">>

UpperHex == <<"A", "B", "C", "D", "E", "F">>

LowerHex == <<"a", "b", "c", "d", "e", "f">>

Range(f) == {f[i] : i \in DOMAIN f}

IndexOf(f, c) == CHOOSE i \in DOMAIN f : f[i] = c

\* the characters input strings are drawn from
Chars == {"0", "1", "9", "A", "F", "a", "f", "G", "x", "-", "+", " ", ".", "_", "U+0663", "U+2460"}

Whitespace == {" ", "\t", "\n"}

\* value of a character with Unicode property Decimal (category Nd), -1 if none
DecimalValue(c) ==
    IF c \in Range(AsciiDigits) THEN IndexOf(AsciiDigits, c) - 1
    ELSE IF c = "U+0663" THEN 3
    ELSE -1

\* str.isdigit of one character: Numeric_Type Decimal or Digit
CharIsDigit(c) == DecimalValue(c) >= 0 \/ c = "U+2460"

\* str.isdigit(): at least one character, and all of them digits
str_isdigit(cs) == Len(cs) > 0 /\ \A i \in 1..Len(cs) : CharIsDigit(cs[i])

(* --------------------------- int(str, base) --------------------------- *)

NonAscii == {"U+0663", "U+2460"}

\* int() first rewrites the string to ASCII: a Unicode decimal digit becomes
\* its ASCII digit, any other non-ASCII character becomes "?"
ToAscii(c) ==
    IF DecimalValue(c) >= 0 THEN AsciiDigits[DecimalValue(c) + 1]
    ELSE IF c \in NonAscii THEN "?"
    ELSE c

TransformDecimalToAscii(cs) == [i \in 1..Len(cs) |-> ToAscii(cs[i])]

\* value of an ASCII character as a digit of any base up to 36; 37 if it is none
DigitValue(c) ==
    IF c \in Range(AsciiDigits) THEN IndexOf(AsciiDigits, c) - 1
    ELSE IF c \in Range(UpperHex) THEN 9 + IndexOf(UpperHex, c)
    ELSE IF c \in Range(LowerHex) THEN 9 + IndexOf(LowerHex, c)
    ELSE IF c \in {"G", "g"} THEN 16
    ELSE IF c \in {"X", "x"} THEN 33
    ELSE 37

RECURSIVE LStrip(_)
LStrip(cs) ==
    IF cs # <<>> /\ Head(cs) \in Whitespace THEN LStrip(Tail(cs)) ELSE cs

RECURSIVE RStrip(_)
RStrip(cs) ==
    IF cs # <<>> /\ cs[Len(cs)] \in Whitespace
    THEN RStrip(SubSeq(cs, 1, Len(cs) - 1))
    ELSE cs

DropSign(cs) == IF cs # <<>> /\ Head(cs) \in {"+", "-"} THEN Tail(cs) ELSE cs

\* a "0x" / "0X" prefix is skipped in base 16, and one underscore after it
DropPrefix(cs, base) ==
    IF base = 16 /\ Len(cs) >= 2 /\ cs[1] = "0" /\ cs[2] \in {"x", "X"}
    THEN IF Len(cs) >= 3 /\ cs[3] = "_" THEN SubSeq(cs, 4, Len(cs))
         ELSE SubSeq(cs, 3, Len(cs))
    ELSE cs

\* digits of the base, single underscores only between digits
ValidBody(b, base) ==
    /\ Len(b) > 0
    /\ b[1] # "_"
    /\ b[Len(b)] # "_"
    /\ \A i \in 1..Len(b) :
          IF b[i] = "_" THEN i > 1 /\ b[i - 1] # "_"
          ELSE DigitValue(b[i]) < base

RECURSIVE BodyValue(_, _, _)
BodyValue(b, base, acc) ==
    IF b = <<>> THEN acc
    ELSE IF Head(b) = "_" THEN BodyValue(Tail(b), base, acc)
    ELSE BodyValue(Tail(b), base, acc * base + DigitValue(Head(b)))

\* int(s, base) of a str: [ok, n]; ok = FALSE is "invalid literal for int()"
PyLong_FromString(cs, base) ==
    LET stripped == LStrip(RStrip(TransformDecimalToAscii(cs)))
        negative == stripped # <<>> /\ Head(stripped) = "-"
        body     == DropPrefix(DropSign(stripped), base)
    IN  IF ValidBody(body, base)
        THEN [ok |-> TRUE,
              n  |-> IF negative THEN 0 - BodyValue(body, base, 0)
                     ELSE BodyValue(body, base, 0)]
        ELSE [ok |-> FALSE, n |-> 0]

(* ------------------------------ outcomes ------------------------------ *)

Returned(v) == [raised |-> FALSE, exc |-> "", msg |-> "", val |-> v]

Raised(e, m) == [raised |-> TRUE, exc |-> e, msg |-> m, val |-> NoneV]

NoOutcome == [raised |-> FALSE, exc |-> "", msg |-> "not called", val |-> NoneV]

\* int(x, base) for a str x, as an outcome
int_of_str(cs, base) ==
    LET r == PyLong_FromString(cs, base)
    IN  IF r.ok THEN Returned(IntV(r.n))
        ELSE Raised("ValueError", "invalid literal for int()")

(* ------------------------ convert_string_to_int ----------------------- *)

\* variant: the literal is read in the wrong radix
convert_string_to_int_base8(mining_score) ==
    IF mining_score.type # "str" \/ ~str_isdigit(mining_score.chars)
    THEN Raised("ValueError", "Score must be a string containing only digits")
    ELSE int_of_str(mining_score.chars, 8)

\* variant: a literal with a leading zero is refused
convert_string_to_int_noLeadingZero(mining_score) ==
    IF mining_score.type # "str" \/ ~str_isdigit(mining_score.chars)
       \/ (Len(mining_score.chars) > 1 /\ mining_score.chars[1] = "0")
    THEN Raised("ValueError", "Score must be a string containing only digits")
    ELSE int_of_str(mining_score.chars, 10)

convert_string_to_int(mining_score) ==
    IF mining_score.type # "str" \/ ~str_isdigit(mining_score.chars)
    THEN Raised("ValueError", "Score must be a string containing only digits")
    ELSE int_of_str(mining_score.chars, 10)

(* ------------------------- convert_hex_to_int ------------------------- *)

\* variant: the lower-case letters are missing from the alphabet
HexAlphabet_upperOnly == Range(AsciiDigits) \cup Range(UpperHex)

HexAlphabet == Range(AsciiDigits) \cup Range(UpperHex) \cup Range(LowerHex)

\* variant: the base argument of int() is missing
convert_hex_to_int_base10(achievement_hex) ==
    IF achievement_hex.type # "str"
       \/ ~(\A i \in 1..Len(achievement_hex.chars) : achievement_hex.chars[i] \in HexAlphabet)
    THEN Raised("ValueError", "Input must be a valid hexadecimal string")
    ELSE int_of_str(achievement_hex.chars, 10)

\* variant: only the type is checked and int() is left to judge the characters
convert_hex_to_int_unchecked(achievement_hex) ==
    IF achievement_hex.type # "str"
    THEN Raised("ValueError", "Input must be a valid hexadecimal string")
    ELSE int_of_str(achievement_hex.chars, 16)

\* variant: the guard also tests that the string is not empty
convert_hex_to_int_nonEmpty(achievement_hex) ==
    IF achievement_hex.type # "str"
       \/ Len(achievement_hex.chars) = 0
       \/ ~(\A i \in 1..Len(achievement_hex.chars) : achievement_hex.chars[i] \in HexAlphabet)
    THEN Raised("ValueError", "Input must be a valid hexadecimal string")
    ELSE int_of_str(achievement_hex.chars, 16)

convert_hex_to_int(achievement_hex) ==
    IF achievement_hex.type # "str"
       \/ ~(\A i \in 1..Len(achievement_hex.chars) : achievement_hex.chars[i] \in HexAlphabet)
    THEN Raised("ValueError", "Input must be a valid hexadecimal string")
    ELSE int_of_str(achievement_hex.chars, 16)

(* ------------------------- convert_float_to_int ----------------------- *)

\* variant: the sign is tested on the whole part only
float_lt_zero_whole(f) ==
    \/ f.cls = "finite" /\ f.n <= 0 - Scale
    \/ f.cls = "ninf"

\* combat_score < 0 for a float: false for -0.0, NaN and +infinity
float_lt_zero(f) ==
    \/ f.cls = "finite" /\ f.n < 0
    \/ f.cls = "ninf"

\* variant: round half up instead of truncating
int_of_float_round(f) ==
    IF f.cls = "nan" THEN Raised("ValueError", "cannot convert float NaN to integer")
    ELSE IF f.cls \in {"inf", "ninf"}
         THEN Raised("OverflowError", "cannot convert float infinity to integer")
    ELSE IF f.cls = "negzero" THEN Returned(IntV(0))
    ELSE IF f.n >= 0 THEN Returned(IntV((f.n + Scale \div 2) \div Scale))
    ELSE Returned(IntV(0 - ((0 - f.n + Scale \div 2) \div Scale)))

\* int(x) for a float x: truncation toward zero; NaN and the infinities raise
int_of_float(f) ==
    IF f.cls = "nan" THEN Raised("ValueError", "cannot convert float NaN to integer")
    ELSE IF f.cls \in {"inf", "ninf"}
         THEN Raised("OverflowError", "cannot convert float infinity to integer")
    ELSE IF f.cls = "negzero" THEN Returned(IntV(0))
    ELSE IF f.n >= 0 THEN Returned(IntV(f.n \div Scale))
    ELSE Returned(IntV(0 - ((0 - f.n) \div Scale)))

\* variant: the sign check comes before the type check
convert_float_to_int_signFirst(combat_score) ==
    IF \/ combat_score.type = "float" /\ float_lt_zero(combat_score)
       \/ combat_score.type = "int" /\ combat_score.n < 0
    THEN Raised("ValueError", "Score must be non-negative")
    ELSE IF combat_score.type # "float"
         THEN Raised("ValueError", "Score must be a float")
    ELSE int_of_float(combat_score)

\* variant: the sign check is missing
convert_float_to_int_noSign(combat_score) ==
    IF combat_score.type # "float"
    THEN Raised("ValueError", "Score must be a float")
    ELSE int_of_float(combat_score)

\* variant: a third guard rejects NaN and the infinities before int()
convert_float_to_int_finiteGuard(combat_score) ==
    IF combat_score.type # "float"
    THEN Raised("ValueError", "Score must be a float")
    ELSE IF float_lt_zero(combat_score)
         THEN Raised("ValueError", "Score must be non-negative")
    ELSE IF combat_score.cls \in {"nan", "inf"}
         THEN Raised("ValueError", "Score must be finite")
    ELSE int_of_float(combat_score)

convert_float_to_int(combat_score) ==
    IF combat_score.type # "float"
    THEN Raised("ValueError", "Score must be a float")
    ELSE IF float_lt_zero(combat_score)
         THEN Raised("ValueError", "Score must be non-negative")
    ELSE int_of_float(combat_score)

(* ------------------------ convert_score_to_string --------------------- *)

RECURSIVE NatDigits(_)
\* the decimal digits of a natural number, most significant first
NatDigits(k) ==
    IF k < 10 THEN <<AsciiDigits[k + 1]>>
    ELSE Append(NatDigits(k \div 10), AsciiDigits[(k % 10) + 1])

\* str(x) for an int
int_str(k) == IF k < 0 THEN <<"-">> \o NatDigits(0 - k) ELSE NatDigits(k)

RECURSIVE ZeroPad(_, _)
ZeroPad(cs, width) == IF Len(cs) >= width THEN cs ELSE ZeroPad(<<"0">> \o cs, width)

RECURSIVE StripZeros(_)
\* drops trailing zeros, keeping one digit
StripZeros(cs) ==
    IF Len(cs) > 1 /\ cs[Len(cs)] = "0" THEN StripZeros(SubSeq(cs, 1, Len(cs) - 1))
    ELSE cs

\* str(x) for a float: shortest repr, always with a fractional part
float_str(f) ==
    IF f.cls = "nan" THEN <<"n", "a", "n">>
    ELSE IF f.cls = "inf" THEN <<"i", "n", "f">>
    ELSE IF f.cls = "ninf" THEN <<"-", "i", "n", "f">>
    ELSE IF f.cls = "negzero" THEN <<"-", "0", ".", "0">>
    ELSE LET mag == IF f.n < 0 THEN 0 - f.n ELSE f.n
             whole == NatDigits(mag \div Scale)
             frac  == StripZeros(ZeroPad(NatDigits(mag % Scale), FracDigits))
         IN  (IF f.n < 0 THEN <<"-">> ELSE <<>>) \o whole \o <<".">> \o frac

\* str(x) for the types that pass the isinstance(x, (int, float)) test;
\* bool is a subclass of int
py_str(v) ==
    IF v.type = "bool" THEN (IF v.n = 1 THEN <<"T", "r", "u", "e">> ELSE <<"F", "a", "l", "s", "e">>)
    ELSE IF v.type = "float" THEN float_str(v)
    ELSE int_str(v.n)

RECURSIVE Grouped(_)
\* digits with a comma before every group of three
Grouped(cs) ==
    IF Len(cs) <= 3 THEN cs
    ELSE Grouped(SubSeq(cs, 1, Len(cs) - 3)) \o <<",">> \o SubSeq(cs, Len(cs) - 2, Len(cs))

\* variant: the total is formatted with a thousands separator
convert_score_to_string_grouped(total_score) ==
    IF total_score.type \notin {"int", "bool", "float"}
    THEN Raised("ValueError", "Score must be a number")
    ELSE IF total_score.type = "int" /\ total_score.n >= 0
         THEN Returned(StrV(Grouped(py_str(total_score))))
    ELSE Returned(StrV(py_str(total_score)))

\* variant: the total is converted to float before it is formatted
convert_score_to_string_viaFloat(total_score) ==
    IF total_score.type \notin {"int", "bool", "float"}
    THEN Raised("ValueError", "Score must be a number")
    ELSE IF total_score.type = "float" THEN Returned(StrV(py_str(total_score)))
    ELSE Returned(StrV(float_str(FloatV(total_score.n * Scale))))

\* variant: a string of digits is let through as if it were a number
convert_score_to_string_lenient(total_score) ==
    IF total_score.type = "str" /\ str_isdigit(total_score.chars)
    THEN Returned(total_score)
    ELSE IF total_score.type \notin {"int", "bool", "float"}
         THEN Raised("ValueError", "Score must be a number")
    ELSE Returned(StrV(py_str(total_score)))

\* variant: the number is made an int before it is formatted
convert_score_to_string_intOnly(total_score) ==
    IF total_score.type \notin {"int", "bool", "float"}
    THEN Raised("ValueError", "Score must be a number")
    ELSE IF total_score.type = "float"
         THEN LET o == int_of_float(total_score)
              IN  IF o.raised THEN o ELSE Returned(StrV(int_str(o.val.n)))
    ELSE Returned(StrV(py_str(total_score)))

convert_score_to_string(total_score) ==
    IF total_score.type \notin {"int", "bool", "float"}
    THEN Raised("ValueError", "Score must be a number")
    ELSE Returned(StrV(py_str(total_score)))

(* --------------------------- create_player_list ----------------------- *)

\* truth value of a str: false only for the empty string
str_truthy(cs) == Len(cs) > 0

\* variant: the name is stripped before the emptiness test
create_player_list_stripped(player_name, total_score) ==
    IF player_name.type # "str" \/ ~str_truthy(LStrip(player_name.chars))
    THEN Raised("ValueError", "Player name must be a non-empty string")
    ELSE Returned(ListV(<<player_name, total_score>>))

\* variant: the isinstance test is missing, only the truth value is tested
create_player_list_truthy(player_name, total_score) ==
    IF \/ player_name.type = "str" /\ ~str_truthy(player_name.chars)
       \/ player_name.type \in {"int", "bool"} /\ player_name.n = 0
       \/ player_name.type \in {"NoneType", "list", "dict", "set", "tuple"}
    THEN Raised("ValueError", "Player name must be a non-empty string")
    ELSE Returned(ListV(<<player_name, total_score>>))

\* variant: the record is a list shared between calls (a mutable default
\* argument) to which every call appends
create_player_list_sharedList(player_name, total_score) ==
    LET earlier == {i \in 1..Len(calls) :
                       calls[i].call = "create_player_list" /\ ~calls[i].outcome.raised}
        shared  == IF earlier = {} THEN <<>>
                   ELSE calls[CHOOSE i \in earlier : \A k \in earlier : k <= i].outcome.val.items
    IN  IF player_name.type # "str" \/ ~str_truthy(player_name.chars)
        THEN Raised("ValueError", "Player name must be a non-empty string")
        ELSE Returned(ListV(shared \o <<player_name, total_score>>))

\* variant: the score is validated as well
create_player_list_scoreChecked(player_name, total_score) ==
    IF player_name.type # "str" \/ ~str_truthy(player_name.chars)
    THEN Raised("ValueError", "Player name must be a non-empty string")
    ELSE IF total_score.type # "int" \/ total_score.n < 0
         THEN Raised("ValueError", "Score must be a number")
    ELSE Returned(ListV(<<player_name, total_score>>))

create_player_list(player_name, total_score) ==
    IF player_name.type # "str" \/ ~str_truthy(player_name.chars)
    THEN Raised("ValueError", "Player name must be a non-empty string")
    ELSE Returned(ListV(<<player_name, total_score>>))

(* ------------------------------- inputs ------------------------------- *)

RECURSIVE SeqsUpTo(_, _)
\* all sequences over S of length 0..k
SeqsUpTo(S, k) ==
    IF k = 0 THEN {<<>>}
    ELSE LET shorter == SeqsUpTo(S, k - 1)
         IN  shorter \cup {Append(q, c) : q \in shorter, c \in S}

StrInputs == {StrV(cs) : cs \in SeqsUpTo(Chars, MaxLen)}

IntInputs == {IntV(k) : k \in (0 - MaxInt)..MaxInt}

FloatInputs ==
    {FloatV(m) : m \in (0 - Scale)..(MaxWhole * Scale + Scale - 1)}
    \cup {SpecialFloatV(c) : c \in {"negzero", "nan", "inf", "ninf"}}

OtherInputs ==
    {BoolV(TRUE), BoolV(FALSE), NoneV, ListV(<<>>)}
    \cup {OtherV(t) : t \in {"dict", "set", "tuple", "complex", "function", "object"}}

Inputs == StrInputs \cup IntInputs \cup FloatInputs \cup OtherInputs

\* names and scores a record is built from
NameInputs ==
    {StrV(cs) : cs \in SeqsUpTo({"S", " ", "x", "\t", "\n"}, 2)}
    \cup {IntV(7), FloatV(Scale), SpecialFloatV("nan")} \cup OtherInputs

ScoreInputs ==
    {IntV(0), IntV(229), IntV(0 - 5), FloatV(229 * Scale), StrV(<<"1">>), NoneV, BoolV(TRUE)}

(* ------------------------------ float(str) --------------------------- *)

LowerAscii(c) ==
    CASE c = "I" -> "i" [] c = "N" -> "n" [] c = "F" -> "f" [] c = "A" -> "a"
      [] c = "T" -> "t" [] c = "Y" -> "y" [] OTHER -> c

RECURSIVE WithoutUnderscores(_)
WithoutUnderscores(cs) ==
    IF cs = <<>> THEN <<>>
    ELSE IF Head(cs) = "_" THEN WithoutUnderscores(Tail(cs))
    ELSE <<Head(cs)>> \o WithoutUnderscores(Tail(cs))

RECURSIVE PadRight(_, _)
PadRight(cs, width) == IF Len(cs) >= width THEN cs ELSE PadRight(Append(cs, "0"), width)

\* the fractional digits as a number of 1/Scale units; the texts typed at the
\* prompt have at most FracDigits fractional digits, so the value is exact
FracUnits(digits) ==
    IF FracDigits = 0 \/ digits = <<>> THEN 0
    ELSE BodyValue(SubSeq(PadRight(digits, FracDigits), 1, FracDigits), 10, 0)

\* float(s) of a str: surrounding whitespace, a sign, then "inf", "infinity",
\* "nan" in any case, or decimal digits with an optional point (the texts of
\* the model carry no exponent part)
py_float(cs) ==
    LET stripped == LStrip(RStrip(TransformDecimalToAscii(cs)))
        negative == stripped # <<>> /\ Head(stripped) = "-"
        body     == DropSign(stripped)
        lower    == [i \in 1..Len(body) |-> LowerAscii(body[i])]
        hasPoint == \E i \in 1..Len(body) : body[i] = "."
        point    == IF hasPoint
                    THEN CHOOSE i \in 1..Len(body) :
                            body[i] = "." /\ \A k \in 1..(i - 1) : body[k] # "."
                    ELSE Len(body) + 1
        whole    == SubSeq(body, 1, point - 1)
        frac     == SubSeq(body, point + 1, Len(body))
        units    == (IF whole = <<>> THEN 0 ELSE BodyValue(whole, 10, 0) * Scale)
                    + FracUnits(WithoutUnderscores(frac))
    IN  IF lower \in {<<"i", "n", "f">>, <<"i", "n", "f", "i", "n", "i", "t", "y">>}
        THEN Returned(SpecialFloatV(IF negative THEN "ninf" ELSE "inf"))
        ELSE IF lower = <<"n", "a", "n">> THEN Returned(SpecialFloatV("nan"))
        ELSE IF /\ whole # <<>> \/ frac # <<>>
                /\ whole = <<>> \/ ValidBody(whole, 10)
                /\ frac = <<>> \/ ValidBody(frac, 10)
             THEN IF negative /\ units = 0 THEN Returned(SpecialFloatV("negzero"))
                  ELSE Returned(FloatV(IF negative THEN 0 - units ELSE units))
        ELSE Raised("ValueError", "could not convert string to float")

(* ------------------------------- __main__ ----------------------------- *)

\* a name of the __main__ block that has not been assigned yet
Unbound == OtherV("unbound")

NoError == [raised |-> FALSE, exc |-> "", msg |-> "", val |-> NoneV]

Line(label, cs) == [label |-> label, text |-> cs]

\* the lines typed at the four prompts
MiningTexts ==
    {<<"1", "0", "0">>, <<"0">>, <<"1">>, <<"0", "0", "7">>, <<>>, <<"-", "1">>,
     <<"1", "2", ".", "5">>, <<"U+0663">>, <<"U+2460">>}

CombatTexts ==
    {float_str(FloatV(m)) : m \in {0, 99 * (Scale \div 100), Scale + 9 * (Scale \div 10),
                                   98 * Scale + 7 * (Scale \div 10), 0 - (Scale \div 10)}}
    \cup {<<"9", "8">>, <<"i", "n", "f">>, <<"n", "a", "n">>, <<"-", "i", "n", "f">>,
          <<"-", "0", ".", "0">>, <<>>, <<"a", "b", "c">>, <<"1", ".", "9", ".">>}

HexTexts ==
    {<<"1", "F">>, <<"f", "f">>, <<"0">>, <<"1">>, <<>>, <<"0", "x", "1", "F">>,
     <<"-", "1", "F">>, <<"X", "Y", "Z">>}

NameTexts == {<<"S", "t", "e", "v", "e">>, <<"X">>, <<>>, <<" ">>}

\* variant: the achievement bonus is converted only after the sum
NextStep_sumBeforeHex(p) ==
    CASE p = "main"            -> "input_mining"
      [] p = "input_mining"    -> "convert_mining"
      [] p = "convert_mining"  -> "input_combat"
      [] p = "input_combat"    -> "convert_combat"
      [] p = "convert_combat"  -> "sum"
      [] p = "sum"             -> "input_hex"
      [] p = "input_hex"       -> "convert_hex"
      [] p = "convert_hex"     -> "format"
      [] p = "format"          -> "input_name"
      [] p = "input_name"      -> "build_record"
      [] p = "build_record"    -> "print_final"
      [] p = "print_final"     -> "Completed"

\* variant: the username is asked for first
NextStep_nameFirst(p) ==
    CASE p = "main"            -> "input_name"
      [] p = "input_name"      -> "input_mining"
      [] p = "input_mining"    -> "convert_mining"
      [] p = "convert_mining"  -> "input_combat"
      [] p = "input_combat"    -> "convert_combat"
      [] p = "convert_combat"  -> "input_hex"
      [] p = "input_hex"       -> "convert_hex"
      [] p = "convert_hex"     -> "sum"
      [] p = "sum"             -> "format"
      [] p = "format"          -> "build_record"
      [] p = "build_record"    -> "print_final"
      [] p = "print_final"     -> "Completed"

\* the statements of the block in textual order
NextStep(p) ==
    CASE p = "main"            -> "input_mining"
      [] p = "input_mining"    -> "convert_mining"
      [] p = "convert_mining"  -> "input_combat"
      [] p = "input_combat"    -> "convert_combat"
      [] p = "convert_combat"  -> "input_hex"
      [] p = "input_hex"       -> "convert_hex"
      [] p = "convert_hex"     -> "sum"
      [] p = "sum"             -> "format"
      [] p = "format"          -> "input_name"
      [] p = "input_name"      -> "build_record"
      [] p = "build_record"    -> "print_final"
      [] p = "print_final"     -> "Completed"

\* variant: the exception is caught and the block goes on
Propagate_swallow(o, p) == NextStep(p)

\* variant: a failing step sends the user back to the prompt of its input
Propagate_retry(o, p) ==
    IF ~o.raised THEN NextStep(p)
    ELSE CASE p \in {"input_mining", "convert_mining"} -> "input_mining"
           [] p \in {"input_combat", "convert_combat"} -> "input_combat"
           [] p \in {"input_hex", "convert_hex"}       -> "input_hex"
           [] p \in {"input_name", "build_record"}     -> "input_name"
           [] OTHER                                    -> "Aborted"

\* no try/except in the block: an exception ends the run
Propagate(o, p) == IF o.raised THEN "Aborted" ELSE NextStep(p)

\* variant: a failing call is caught and its target is bound to None
Assign_none(o, old) == o.val

\* an assignment takes place only if its right-hand side returns
Assign(o, old) == IF o.raised THEN old ELSE o.val

Surface(o) == IF o.raised THEN o ELSE error

Log(step, o) == Append(done, [step |-> step, ok |-> ~o.raised])

\* variant: the achievement bonus is left out of the sum
add3_noBonus(a, b, c) == IntV(a.n + b.n)

\* variant: the sum is carried out in floating point
add3_float(a, b, c) == FloatV((a.n + b.n + c.n) * Scale)

\* mining_points + combat_points + achievement_bonus
add3(a, b, c) == IntV(a.n + b.n + c.n)

(* ------------------------------ behaviour ----------------------------- *)

\* The outcome of a call is bound once (\E o \in {f(x)}) and then used by
\* the assignment, the print and the propagation of the statement.
\*
\* The module is either imported, and a caller picks a function and its
\* arguments, the call runs to its outcome and the caller takes the outcome
\* before the next call; or it is run as a script, and the __main__ block
\* runs once from its first statement to completion or to an exception.

Init ==
    /\ call = "none"
    /\ args = <<>>
    /\ outcome = NoOutcome
    /\ calls = <<>>
    /\ pc = "module_loaded"
    /\ main_mining_score = Unbound
    /\ mining_points = Unbound
    /\ main_combat_score = Unbound
    /\ combat_points = Unbound
    /\ main_achievement_hex = Unbound
    /\ achievement_bonus = Unbound
    /\ main_total_score = Unbound
    /\ score_display = Unbound
    /\ main_player_name = Unbound
    /\ player_stats = Unbound
    /\ stdout = <<>>
    /\ error = NoError
    /\ done = <<>>

CallStringToInt ==
    /\ pc = "module_loaded"
    /\ call = "none"
    /\ \E v \in Inputs :
        /\ call' = "convert_string_to_int"
        /\ args' = <<v>>
        /\ outcome' = convert_string_to_int(v)
    /\ UNCHANGED <<calls, mainVars>>

CallFloatToInt ==
    /\ pc = "module_loaded"
    /\ call = "none"
    /\ \E v \in Inputs :
        /\ call' = "convert_float_to_int"
        /\ args' = <<v>>
        /\ outcome' = convert_float_to_int(v)
    /\ UNCHANGED <<calls, mainVars>>

CallHexToInt ==
    /\ pc = "module_loaded"
    /\ call = "none"
    /\ \E v \in Inputs :
        /\ call' = "convert_hex_to_int"
        /\ args' = <<v>>
        /\ outcome' = convert_hex_to_int(v)
    /\ UNCHANGED <<calls, mainVars>>

CallScoreToString ==
    /\ pc = "module_loaded"
    /\ call = "none"
    /\ \E v \in Inputs :
        /\ call' = "convert_score_to_string"
        /\ args' = <<v>>
        /\ outcome' = convert_score_to_string(v)
    /\ UNCHANGED <<calls, mainVars>>

CallCreatePlayerList ==
    /\ pc = "module_loaded"
    /\ call = "none"
    /\ \E name \in NameInputs, score \in ScoreInputs :
        /\ call' = "create_player_list"
        /\ args' = <<name, score>>
        /\ outcome' = create_player_list(name, score)
    /\ UNCHANGED <<calls, mainVars>>

\* the caller has taken the outcome (a value, or a caught exception)
Return ==
    /\ call # "none"
    /\ call' = "none"
    /\ args' = <<>>
    /\ outcome' = NoOutcome
    /\ UNCHANGED <<calls, mainVars>>

\* lines 33-37: the script starts and prints its banner
RunMain ==
    /\ pc = "module_loaded"
    /\ call = "none"
    /\ pc' = NextStep("main")
    /\ stdout' = <<Line("Minecraft Score Calculator", <<>>), Line("=" , <<"3", "0">>),
                   Line("Welcome to the new Minecraft scoring system!", <<>>),
                   Line("-", <<"3", "0">>)>>
    /\ UNCHANGED <<callVars, main_mining_score, mining_points, main_combat_score, combat_points,
                   main_achievement_hex, achievement_bonus, main_total_score, score_display,
                   main_player_name, player_stats, error, done>>

\* line 40
InputMining ==
    /\ pc = "input_mining"
    /\ \E t \in MiningTexts : main_mining_score' = StrV(t)
    /\ stdout' = Append(stdout, Line("Enter your mining points (e.g., '100'): ", <<>>))
    /\ pc' = NextStep(pc)
    /\ UNCHANGED <<callVars, mining_points, main_combat_score, combat_points,
                   main_achievement_hex, achievement_bonus, main_total_score, score_display,
                   main_player_name, player_stats, error, done>>

\* lines 41-42
ConvertMining ==
    /\ pc = "convert_mining"
    /\ \E o \in {convert_string_to_int(main_mining_score)} :
           /\ mining_points' = Assign(o, mining_points)
           /\ stdout' = IF o.raised THEN stdout
                        ELSE Append(stdout, Line("Mining points: ", py_str(o.val)))
           /\ error' = Surface(o)
           /\ done' = Log("mining", o)
           /\ pc' = Propagate(o, pc)
    /\ UNCHANGED <<callVars, main_mining_score, main_combat_score, combat_points,
                   main_achievement_hex, achievement_bonus, main_total_score, score_display,
                   main_player_name, player_stats>>

\* line 45: the typed line goes through float()
InputCombat ==
    /\ pc = "input_combat"
    /\ \E t \in CombatTexts :
        \E o \in {py_float(t)} :
            /\ main_combat_score' = Assign(o, main_combat_score)
            /\ error' = Surface(o)
            /\ done' = IF o.raised THEN Log("combat", o) ELSE done
            /\ pc' = Propagate(o, pc)
    /\ stdout' = Append(stdout, Line("Enter your combat accuracy (e.g., 98.7): ", <<>>))
    /\ UNCHANGED <<callVars, main_mining_score, mining_points, combat_points,
                   main_achievement_hex, achievement_bonus, main_total_score, score_display,
                   main_player_name, player_stats>>

\* lines 46-47
ConvertCombat ==
    /\ pc = "convert_combat"
    /\ \E o \in {convert_float_to_int(main_combat_score)} :
           /\ combat_points' = Assign(o, combat_points)
           /\ stdout' = IF o.raised THEN stdout
                        ELSE Append(stdout, Line("Combat points: ", py_str(o.val)))
           /\ error' = Surface(o)
           /\ done' = Log("combat", o)
           /\ pc' = Propagate(o, pc)
    /\ UNCHANGED <<callVars, main_mining_score, mining_points, main_combat_score,
                   main_achievement_hex, achievement_bonus, main_total_score, score_display,
                   main_player_name, player_stats>>

\* line 50
InputHex ==
    /\ pc = "input_hex"
    /\ \E t \in HexTexts : main_achievement_hex' = StrV(t)
    /\ stdout' = Append(stdout, Line("Enter achievement bonus in hex (e.g., 'A' or '1F'): ", <<>>))
    /\ pc' = NextStep(pc)
    /\ UNCHANGED <<callVars, main_mining_score, mining_points, main_combat_score, combat_points,
                   achievement_bonus, main_total_score, score_display,
                   main_player_name, player_stats, error, done>>

\* lines 51-52
ConvertHex ==
    /\ pc = "convert_hex"
    /\ \E o \in {convert_hex_to_int(main_achievement_hex)} :
           /\ achievement_bonus' = Assign(o, achievement_bonus)
           /\ stdout' = IF o.raised THEN stdout
                        ELSE Append(stdout, Line("Achievement bonus: ", py_str(o.val)))
           /\ error' = Surface(o)
           /\ done' = Log("achievement", o)
           /\ pc' = Propagate(o, pc)
    /\ UNCHANGED <<callVars, main_mining_score, mining_points, main_combat_score, combat_points,
                   main_achievement_hex, main_total_score, score_display,
                   main_player_name, player_stats>>

\* line 55
SumScores ==
    /\ pc = "sum"
    /\ main_total_score' = add3(mining_points, combat_points, achievement_bonus)
    /\ done' = Log("sum", NoError)
    /\ pc' = NextStep(pc)
    /\ UNCHANGED <<callVars, main_mining_score, mining_points, main_combat_score, combat_points,
                   main_achievement_hex, achievement_bonus, score_display,
                   main_player_name, player_stats, stdout, error>>

\* line 56
FormatScore ==
    /\ pc = "format"
    /\ \E o \in {convert_score_to_string(main_total_score)} :
           /\ score_display' = Assign(o, score_display)
           /\ error' = Surface(o)
           /\ done' = Log("format", o)
           /\ pc' = Propagate(o, pc)
    /\ UNCHANGED <<callVars, main_mining_score, mining_points, main_combat_score, combat_points,
                   main_achievement_hex, achievement_bonus, main_total_score,
                   main_player_name, player_stats, stdout>>

\* line 59
InputName ==
    /\ pc = "input_name"
    /\ \E t \in NameTexts : main_player_name' = StrV(t)
    /\ stdout' = Append(stdout, Line("\nEnter your Minecraft username: ", <<>>))
    /\ pc' = NextStep(pc)
    /\ UNCHANGED <<callVars, main_mining_score, mining_points, main_combat_score, combat_points,
                   main_achievement_hex, achievement_bonus, main_total_score, score_display,
                   player_stats, error, done>>

\* line 60
BuildRecord ==
    /\ pc = "build_record"
    /\ \E o \in {create_player_list(main_player_name, main_total_score)} :
           /\ player_stats' = Assign(o, player_stats)
           /\ error' = Surface(o)
           /\ done' = Log("record", o)
           /\ pc' = Propagate(o, pc)
    /\ UNCHANGED <<callVars, main_mining_score, mining_points, main_combat_score, combat_points,
                   main_achievement_hex, achievement_bonus, main_total_score, score_display,
                   main_player_name, stdout>>

\* lines 62-68
PrintFinal ==
    /\ pc = "print_final"
    /\ stdout' = stdout \o
          <<Line("\n=", <<"3", "0">>),
            Line("Final Stats for ", main_player_name.chars),
            Line("Mining Points: ", py_str(mining_points)),
            Line("Combat Points: ", py_str(combat_points)),
            Line("Achievement Bonus: ", py_str(achievement_bonus)),
            Line("Total Score: ", score_display.chars),
            Line("=", <<"3", "0">>)>>
    /\ pc' = NextStep(pc)
    /\ UNCHANGED <<callVars, main_mining_score, mining_points, main_combat_score, combat_points,
                   main_achievement_hex, achievement_bonus, main_total_score, score_display,
                   main_player_name, player_stats, error, done>>

Next ==
    \/ CallStringToInt
    \/ CallFloatToInt
    \/ CallHexToInt
    \/ CallScoreToString
    \/ CallCreatePlayerList
    \/ Return
    \/ RunMain
    \/ InputMining
    \/ ConvertMining
    \/ InputCombat
    \/ ConvertCombat
    \/ InputHex
    \/ ConvertHex
    \/ SumScores
    \/ FormatScore
    \/ InputName
    \/ BuildRecord
    \/ PrintFinal

Spec == Init /\ [][Next]_vars

TypeOK ==
    /\ call \in {"none", "convert_string_to_int", "convert_float_to_int",
                 "convert_hex_to_int", "convert_score_to_string", "create_player_list"}
    /\ outcome.raised \in BOOLEAN
    /\ pc \in {"module_loaded", "input_mining", "convert_mining", "input_combat",
               "convert_combat", "input_hex", "convert_hex", "sum", "format",
               "input_name", "build_record", "print_final", "Completed", "Aborted"}
    /\ call # "none" => pc = "module_loaded"

(* --------------------------- the script alone ------------------------- *)

\* The module run as a script. The interpreter executes the next statement
\* of the block as long as there is one, and every prompt is answered.

NextMain ==
    \/ RunMain
    \/ InputMining
    \/ ConvertMining
    \/ InputCombat
    \/ ConvertCombat
    \/ InputHex
    \/ ConvertHex
    \/ SumScores
    \/ FormatScore
    \/ InputName
    \/ BuildRecord
    \/ PrintFinal

SpecMain == Init /\ [][NextMain]_vars /\ WF_vars(NextMain)

(* ----------------------- a caller that compares ---------------------- *)

\* The functions called repeatedly by a caller that keeps the outcome of
\* every completed call, as the test suite does.

Apply(f, a) ==
    CASE f = "convert_string_to_int"   -> convert_string_to_int(a[1])
      [] f = "convert_float_to_int"    -> convert_float_to_int(a[1])
      [] f = "convert_hex_to_int"      -> convert_hex_to_int(a[1])
      [] f = "convert_score_to_string" -> convert_score_to_string(a[1])
      [] f = "create_player_list"      -> create_player_list(a[1], a[2])

\* the calls such a caller makes: valid and invalid arguments of each function
ProbeCalls ==
    {<<"convert_string_to_int", <<v>>>> :
        v \in {StrV(<<"1", "0">>), StrV(<<"-", "1">>), IntV(7)}}
    \cup {<<"convert_float_to_int", <<v>>>> :
        v \in {FloatV(Scale + 9 * (Scale \div 10)), FloatV(0 - (Scale \div 10)), SpecialFloatV("inf")}}
    \cup {<<"convert_hex_to_int", <<v>>>> :
        v \in {StrV(<<"1", "F">>), StrV(<<>>), StrV(<<"G">>)}}
    \cup {<<"convert_score_to_string", <<v>>>> :
        v \in {IntV(229), BoolV(TRUE), NoneV}}
    \cup {<<"create_player_list", a>> :
        a \in {<<StrV(<<"S">>), IntV(229)>>, <<StrV(<<>>), IntV(0)>>, <<StrV(<<" ">>), NoneV>>}}

ProbeCall ==
    /\ pc = "module_loaded"
    /\ call = "none"
    /\ Len(calls) <= MaxCalls
    /\ \E c \in ProbeCalls :
        /\ call' = c[1]
        /\ args' = c[2]
        /\ outcome' = Apply(c[1], c[2])
    /\ UNCHANGED <<calls, mainVars>>

\* the caller records the outcome it got
ProbeReturn ==
    /\ call # "none"
    /\ Len(calls) < MaxCalls
    /\ calls' = Append(calls, [call |-> call, args |-> args, outcome |-> outcome])
    /\ call' = "none"
    /\ args' = <<>>
    /\ outcome' = NoOutcome
    /\ UNCHANGED mainVars

NextHistory == ProbeCall \/ ProbeReturn

SpecHistory == Init /\ [][NextHistory]_vars

(* ------------------------ reference definitions ----------------------- *)

\* the sixteen hexadecimal digits and their values, by table
HexDigitTable ==
    [c \in {"0", "1", "2", "3", "4", "5", "6", "7", "8", "9",
            "A", "B", "C", "D", "E", "F", "a", "b", "c", "d", "e", "f"} |->
        CASE c = "0" -> 0 [] c = "1" -> 1 [] c = "2" -> 2 [] c = "3" -> 3
          [] c = "4" -> 4 [] c = "5" -> 5 [] c = "6" -> 6 [] c = "7" -> 7
          [] c = "8" -> 8 [] c = "9" -> 9
          [] c \in {"A", "a"} -> 10 [] c \in {"B", "b"} -> 11
          [] c \in {"C", "c"} -> 12 [] c \in {"D", "d"} -> 13
          [] c \in {"E", "e"} -> 14 [] c \in {"F", "f"} -> 15]

ZeroToNine == {"0", "1", "2", "3", "4", "5", "6", "7", "8", "9"}

\* non-empty and made of '0'-'9' only
IsDigitString(cs) == Len(cs) > 0 /\ \A i \in 1..Len(cs) : cs[i] \in ZeroToNine

\* non-empty and made of 0-9, A-F, a-f only
IsHexString(cs) == Len(cs) > 0 /\ \A i \in 1..Len(cs) : cs[i] \in DOMAIN HexDigitTable

RECURSIVE PlaceValue(_, _)
\* the number a digit string denotes in a base: sum of digit * base^position
PlaceValue(cs, base) ==
    IF cs = <<>> THEN 0
    ELSE HexDigitTable[cs[Len(cs)]] + base * PlaceValue(SubSeq(cs, 1, Len(cs) - 1), base)

\* floor of the finite non-negative float m / Scale
FloorOf(m) == CHOOSE k \in 0..MaxWhole : k * Scale <= m /\ m < (k + 1) * Scale

\* f >= 0 for a float: true for -0.0 and +infinity, false for NaN
FloatGeZero(f) == f.cls \in {"negzero", "inf"} \/ (f.cls = "finite" /\ f.n >= 0)

\* f < 0 for a float
FloatNegative(f) == f.cls = "ninf" \/ (f.cls = "finite" /\ f.n < 0)

SwapCase(c) ==
    IF c \in Range(UpperHex) THEN LowerHex[IndexOf(UpperHex, c)]
    ELSE IF c \in Range(LowerHex) THEN UpperHex[IndexOf(LowerHex, c)]
    ELSE c

RECURSIVE CaseVariants(_)
\* the strings that differ from cs only in the case of some of its letters
CaseVariants(cs) ==
    IF cs = <<>> THEN {<<>>}
    ELSE {<<c>> \o v : c \in {Head(cs), SwapCase(Head(cs))}, v \in CaseVariants(Tail(cs))}

Called(f) == call = f

(* -------------------------------- claims ------------------------------ *)

\* C1: for every non-empty string of '0'-'9', convert_string_to_int returns
\* the integer the string denotes in base 10.
C1_DigitStringValue ==
    (Called("convert_string_to_int") /\ args[1].type = "str" /\ IsDigitString(args[1].chars))
        => outcome = Returned(IntV(PlaceValue(args[1].chars, 10)))

C1_Witness ==
    /\ Called("convert_string_to_int")
    /\ args[1] = StrV(<<"1", "0", "9">>)
    /\ outcome = Returned(IntV(109))

\* C2 (as claimed): convert_string_to_int fails for every non-string, for the
\* empty string, and for every string with a character outside '0'-'9'.
C2_RejectsNonAsciiDigits ==
    (/\ Called("convert_string_to_int")
     /\ \/ args[1].type # "str"
        \/ args[1].chars = <<>>
        \/ \E i \in 1..Len(args[1].chars) : args[1].chars[i] \notin ZeroToNine)
        => outcome.raised

\* C3 (as claimed): for every float f >= 0, convert_float_to_int returns floor(f).
C3_EveryNonNegativeFloat ==
    (Called("convert_float_to_int") /\ args[1].type = "float" /\ FloatGeZero(args[1]))
        => /\ ~outcome.raised
           /\ outcome.val.type = "int"
           /\ args[1].cls = "finite" => outcome.val.n = FloorOf(args[1].n)

\* C3 (amended): for every finite float f >= 0 (-0.0 included),
\* convert_float_to_int returns floor(f), the truncated and never the
\* rounded value.
C3_FiniteTruncates ==
    (/\ Called("convert_float_to_int")
     /\ args[1].type = "float"
     /\ args[1].cls \in {"finite", "negzero"}
     /\ args[1].n >= 0)
        => outcome = Returned(IntV(FloorOf(args[1].n)))

C3_Witness ==
    /\ Called("convert_float_to_int")
    /\ args[1] = FloatV(Scale + 9 * (Scale \div 10))
    /\ outcome = Returned(IntV(1))

\* C4: for every float f < 0, however small in magnitude, convert_float_to_int
\* fails with the negative-value error.
C4_NegativeFloatRejected ==
    (Called("convert_float_to_int") /\ args[1].type = "float" /\ FloatNegative(args[1]))
        => outcome = Raised("ValueError", "Score must be non-negative")

C4_Witness ==
    /\ Called("convert_float_to_int")
    /\ args[1] = FloatV(0 - (Scale \div 10))
    /\ outcome.raised
    /\ outcome.msg = "Score must be non-negative"

\* C5: for every input that is not a float, convert_float_to_int fails with
\* the type-mismatch error, a negative integer included.
C5_NonFloatIsTypeMismatch ==
    (Called("convert_float_to_int") /\ args[1].type # "float")
        => outcome = Raised("ValueError", "Score must be a float")

C5_Witness ==
    /\ Called("convert_float_to_int")
    /\ args[1] = IntV(0 - 5)
    /\ outcome.raised
    /\ outcome.msg = "Score must be a float"

\* C6: for every non-empty string of hexadecimal digits, convert_hex_to_int
\* returns the integer the string denotes in base 16.
C6_HexStringValue ==
    (Called("convert_hex_to_int") /\ args[1].type = "str" /\ IsHexString(args[1].chars))
        => outcome = Returned(IntV(PlaceValue(args[1].chars, 16)))

C6_Witness ==
    /\ Called("convert_hex_to_int")
    /\ args[1] = StrV(<<"1", "F">>)
    /\ outcome = Returned(IntV(31))

\* C7: changing the case of any subset of the letters of a valid hex string
\* does not change the result of convert_hex_to_int.
C7_CaseInsensitive ==
    (Called("convert_hex_to_int") /\ args[1].type = "str" /\ IsHexString(args[1].chars))
        => /\ ~outcome.raised
           /\ \A v \in CaseVariants(args[1].chars) : convert_hex_to_int(StrV(v)) = outcome

C7_Witness ==
    /\ Called("convert_hex_to_int")
    /\ args[1] = StrV(<<"a", "F">>)
    /\ outcome = Returned(IntV(175))
    /\ convert_hex_to_int(StrV(<<"A", "f">>)) = outcome

\* C8: convert_hex_to_int fails for the empty string, for every string with a
\* character outside 0-9, A-F, a-f, and for every non-string.
C8_HexRejects ==
    (/\ Called("convert_hex_to_int")
     /\ \/ args[1].type # "str"
        \/ args[1].chars = <<>>
        \/ \E i \in 1..Len(args[1].chars) : args[1].chars[i] \notin DOMAIN HexDigitTable)
        => outcome.raised /\ outcome.val = NoneV

C8_Witness ==
    /\ Called("convert_hex_to_int")
    /\ args[1] = StrV(<<"0", "x", "1">>)
    /\ outcome.raised

\* C9: for every non-negative integer n, convert_score_to_string returns the
\* canonical decimal string of n: digits only, no sign, no separator, no
\* leading zero unless the string is "0".
C9_CanonicalDecimal ==
    (Called("convert_score_to_string") /\ args[1].type = "int" /\ args[1].n >= 0)
        => /\ ~outcome.raised
           /\ outcome.val.type = "str"
           /\ IsDigitString(outcome.val.chars)
           /\ outcome.val.chars[1] = "0" => Len(outcome.val.chars) = 1
           /\ PlaceValue(outcome.val.chars, 10) = args[1].n

C9_Witness ==
    /\ Called("convert_score_to_string")
    /\ args[1] = IntV(1000)
    /\ outcome = Returned(StrV(<<"1", "0", "0", "0">>))

\* C10: for every non-negative integer n, convert_string_to_int applied to
\* convert_score_to_string(n) succeeds and gives n back.
C10_RoundTrip ==
    (Called("convert_score_to_string") /\ args[1].type = "int" /\ args[1].n >= 0)
        => /\ ~outcome.raised
           /\ convert_string_to_int(outcome.val) = Returned(args[1])

C10_Witness ==
    /\ Called("convert_score_to_string")
    /\ args[1] = IntV(1009)
    /\ convert_string_to_int(outcome.val) = Returned(IntV(1009))

\* C11: convert_score_to_string fails with the type-mismatch error for every
\* input that is not a number (strings, None, containers, complex numbers).
C11_NonNumericRejected ==
    (Called("convert_score_to_string") /\ args[1].type \notin {"int", "float", "bool"})
        => outcome = Raised("ValueError", "Score must be a number")

C11_Witness ==
    /\ Called("convert_score_to_string")
    /\ args[1] = StrV(<<"1", "0">>)
    /\ outcome.raised
    /\ outcome.msg = "Score must be a number"

\* C12 (as claimed): convert_score_to_string raises for True and False.
C12_BoolRejected ==
    (Called("convert_score_to_string") /\ args[1].type = "bool") => outcome.raised

IsBlank(cs) == Len(cs) > 0 /\ \A i \in 1..Len(cs) : cs[i] \in {" ", "\t", "\n"}

\* C14 (as claimed): create_player_list raises for a name made only of
\* whitespace, as it does for the empty name.
C14_BlankNameRejected ==
    (Called("create_player_list") /\ args[1].type = "str" /\ IsBlank(args[1].chars))
        => outcome.raised

\* C15: create_player_list fails with the invalid-name error for every name
\* that is not a string, whatever the score.
C15_NonStringNameRejected ==
    (Called("create_player_list") /\ args[1].type # "str")
        => outcome = Raised("ValueError", "Player name must be a non-empty string")

C15_Witness ==
    /\ Called("create_player_list")
    /\ args = <<IntV(7), IntV(229)>>
    /\ outcome.raised
    /\ outcome.msg = "Player name must be a non-empty string"

(* --------------------- reference definitions, __main__ ---------------- *)

\* floor of the finite non-negative float m / Scale, of any size
WholePart(m) == CHOOSE k \in 0..m : k * Scale <= m /\ m < (k + 1) * Scale

\* the six steps of the aggregation workflow, in order
Order == <<"mining", "combat", "achievement", "sum", "format", "record">>

Logged(step) == \E i \in 1..Len(done) : done[i].step = step

\* each input is valid if it has been read
MiningValid == main_mining_score = Unbound \/ IsDigitString(main_mining_score.chars)

\* the line typed at the combat prompt, if any, was the text of a float
CombatParsed == main_combat_score # Unbound \/ ~Logged("combat")

CombatNonNegative ==
    CombatParsed /\ (main_combat_score # Unbound => FloatGeZero(main_combat_score))

CombatFiniteNonNegative ==
    /\ CombatParsed
    /\ main_combat_score # Unbound =>
          (main_combat_score.cls \in {"finite", "negzero"} /\ main_combat_score.n >= 0)

HexValid == main_achievement_hex = Unbound \/ IsHexString(main_achievement_hex.chars)

NameValid == main_player_name = Unbound \/ main_player_name.chars # <<>>

\* the results the completed workflow holds for its four inputs
EndToEndResult ==
    /\ mining_points = IntV(PlaceValue(main_mining_score.chars, 10))
    /\ combat_points = IntV(WholePart(main_combat_score.n))
    /\ achievement_bonus = IntV(PlaceValue(main_achievement_hex.chars, 16))
    /\ main_total_score = IntV(mining_points.n + combat_points.n + achievement_bonus.n)
    /\ score_display.type = "str"
    /\ IsDigitString(score_display.chars)
    /\ score_display.chars[1] = "0" => Len(score_display.chars) = 1
    /\ PlaceValue(score_display.chars, 10) = main_total_score.n
    /\ player_stats = ListV(<<main_player_name, main_total_score>>)

(* ----------------------------- claims, __main__ ----------------------- *)

\* C16 (as claimed): for every valid digit string, non-negative float, valid
\* hex string and non-empty name the workflow does not abort, and completes
\* with total = value(m) + trunc(c) + hex(h), its decimal rendering and the
\* record [name, total].
C16_EndToEndAnyNonNegative ==
    LET valid == MiningValid /\ CombatNonNegative /\ HexValid /\ NameValid
    IN  /\ valid => pc # "Aborted"
        /\ (valid /\ pc = "Completed") => EndToEndResult

\* C16 (amended): the same for every finite non-negative float.
C16_EndToEndFinite ==
    LET valid == MiningValid /\ CombatFiniteNonNegative /\ HexValid /\ NameValid
    IN  /\ valid => pc # "Aborted"
        /\ (valid /\ pc = "Completed") => EndToEndResult

C16_Witness ==
    /\ pc = "Completed"
    /\ main_mining_score = StrV(<<"1", "0", "0">>)
    /\ main_combat_score = FloatV(98 * Scale + 7 * (Scale \div 10))
    /\ main_achievement_hex = StrV(<<"1", "F">>)
    /\ main_player_name = StrV(<<"S", "t", "e", "v", "e">>)
    /\ <<mining_points, combat_points, achievement_bonus>> = <<IntV(100), IntV(98), IntV(31)>>
    /\ main_total_score = IntV(229)
    /\ score_display = StrV(<<"2", "2", "9">>)
    /\ player_stats = ListV(<<StrV(<<"S", "t", "e", "v", "e">>), IntV(229)>>)

\* C17: the steps run in the order mining, combat, achievement, sum, format,
\* record; a step runs only after all earlier ones succeeded, nothing runs
\* after a failed step, and the sum exists only if the three conversions
\* succeeded.
C17_StrictOrder ==
    /\ Len(done) <= Len(Order)
    /\ \A i \in 1..Len(done) :
          /\ done[i].step = Order[i]
          /\ i < Len(done) => done[i].ok
    /\ (Len(done) > 0 /\ ~done[Len(done)].ok) => pc = "Aborted"
    /\ main_total_score # Unbound =>
          /\ Len(done) >= 4
          /\ Unbound \notin {mining_points, combat_points, achievement_bonus}

C17_Witness ==
    /\ pc = "Aborted"
    /\ Len(done) = 3
    /\ done[3] = [step |-> "achievement", ok |-> FALSE]
    /\ main_total_score = Unbound

\* C18: an aborted workflow has produced no record; a completed one has run
\* all six steps with success and holds exactly one record.
C18_NoPartialRecord ==
    /\ pc = "Aborted" => player_stats = Unbound
    /\ pc = "Completed" =>
          /\ Len(done) = 6
          /\ \A i \in 1..6 : done[i].ok
          /\ Cardinality({i \in 1..6 : done[i].step = "record"}) = 1
          /\ player_stats.type = "list"

C18_Witness ==
    /\ pc = "Completed"
    /\ player_stats = ListV(<<StrV(<<"X">>), IntV(3)>>)
    /\ Len(done) = 6

\* C19 (as claimed): every failure of a function is a ValueError, and the
\* error an aborted workflow surfaces is the ValueError of its failing step.
C19_OnlyValueErrors ==
    /\ (call # "none" /\ outcome.raised) => outcome.exc = "ValueError"
    /\ pc = "Aborted" => (error.raised /\ error.exc = "ValueError")

\* C20: every integer returned by the three converters is >= 0, and so are
\* the three components and the total of the workflow.
C20_NonNegativeScores ==
    /\ (/\ call \in {"convert_string_to_int", "convert_float_to_int", "convert_hex_to_int"}
        /\ ~outcome.raised)
          => (outcome.val.type = "int" /\ outcome.val.n >= 0)
    /\ \A v \in {mining_points, combat_points, achievement_bonus, main_total_score} :
          v # Unbound => (v.type = "int" /\ v.n >= 0)

C20_Witness ==
    /\ pc = "Completed"
    /\ main_combat_score = SpecialFloatV("negzero")
    /\ main_total_score = IntV(0)

(* ------------------------- claims, repeated calls --------------------- *)

DataVars ==
    <<main_mining_score, mining_points, main_combat_score, combat_points,
      main_achievement_hex, achievement_bonus, main_total_score, score_display,
      main_player_name, player_stats>>

Terminal == pc \in {"Completed", "Aborted"}

\* no step of the workflow appears twice in the log
NoStepTwice == \A i, k \in 1..Len(done) : done[i].step = done[k].step => i = k

\* C23: the run of the script eventually reaches Completed or Aborted, stays
\* in the terminal state it reached, and executes no step more than once.
C23_TerminatesOnce ==
    /\ <>Terminal
    /\ [][Terminal => pc' = pc]_vars
    /\ []NoStepTwice

C23_Witness ==
    /\ pc = "Aborted"
    /\ error = Raised("ValueError", "could not convert string to float")
    /\ Len(done) = 2
    /\ NoStepTwice

(* --------------------- claims, behaviour at the edges ----------------- *)

HexGuardMessage == "Input must be a valid hexadecimal string"

\* C24: the empty string passes the guard of convert_hex_to_int and is
\* rejected by int(s, 16): its error is the parser's, without the function's
\* own description, while a string with an illegal character gets that
\* description.
C24_EmptyHexFailsInParse ==
    (Called("convert_hex_to_int") /\ args[1].type = "str") =>
        /\ args[1].chars = <<>> =>
              /\ outcome = Raised("ValueError", "invalid literal for int()")
              /\ outcome.msg # HexGuardMessage
        /\ (\E i \in 1..Len(args[1].chars) : args[1].chars[i] \notin DOMAIN HexDigitTable) =>
              outcome = Raised("ValueError", HexGuardMessage)

C24_Witness ==
    /\ Called("convert_hex_to_int")
    /\ args = <<StrV(<<>>)>>
    /\ outcome.raised
    /\ outcome.msg = "invalid literal for int()"

\* C25: for -infinity, NaN and +infinity convert_float_to_int returns no
\* integer: -infinity is stopped by the sign guard; NaN and +infinity pass
\* both guards and fail in int(): NaN with a ValueError of int(), +infinity
\* with an OverflowError.
C25_NonFiniteNeverReturns ==
    (Called("convert_float_to_int") /\ args[1].type = "float"
        /\ args[1].cls \in {"nan", "inf", "ninf"}) =>
        /\ outcome.raised
        /\ args[1].cls = "ninf" => outcome = Raised("ValueError", "Score must be non-negative")
        /\ args[1].cls = "nan" =>
              outcome = Raised("ValueError", "cannot convert float NaN to integer")
        /\ args[1].cls = "inf" =>
              outcome = Raised("OverflowError", "cannot convert float infinity to integer")

C25_Witness ==
    /\ Called("convert_float_to_int")
    /\ args = <<SpecialFloatV("inf")>>
    /\ outcome.raised
    /\ outcome.exc = "OverflowError"

\* C26: convert_string_to_int accepts a string of '0'-'9' with leading zeros
\* and returns the value it has without them, and formatting that value gives
\* the string back exactly when the string is "0" or does not start with '0'.
C26_RoundTripIffNoLeadingZero ==
    (Called("convert_string_to_int") /\ args[1].type = "str" /\ IsDigitString(args[1].chars)) =>
        /\ ~outcome.raised
        /\ convert_string_to_int(StrV(<<"0">> \o args[1].chars)) = outcome
        /\ (convert_score_to_string(outcome.val) = Returned(args[1]))
              <=> (args[1].chars = <<"0">> \/ args[1].chars[1] # "0")

C26_Witness ==
    /\ Called("convert_string_to_int")
    /\ args = <<StrV(<<"0", "0", "9">>)>>
    /\ outcome = Returned(IntV(9))
    /\ convert_score_to_string(outcome.val) = Returned(StrV(<<"9">>))

C28_AbortOnlyAtConversionsOrRecord ==
    /\ pc = "sum" =>
          \A v \in {mining_points, combat_points, achievement_bonus} : v.type = "int"
    /\ pc = "format" =>
          /\ main_total_score.type = "int"
          /\ main_total_score.n >= 0
          /\ ~convert_score_to_string(main_total_score).raised
    /\ \A i \in 1..Len(done) : done[i].step \in {"sum", "format"} => done[i].ok
    /\ pc = "Aborted" =>
          /\ Len(done) > 0
          /\ ~done[Len(done)].ok
          /\ done[Len(done)].step \in {"mining", "combat", "achievement", "record"}
          /\ done[Len(done)].step = "record" => main_player_name = StrV(<<>>)

C28_Witness ==
    /\ pc = "Aborted"
    /\ Len(done) = 6
    /\ done[5] = [step |-> "format", ok |-> TRUE]
    /\ done[6] = [step |-> "record", ok |-> FALSE]
    /\ main_player_name = StrV(<<>>)
    /\ main_total_score = IntV(229)

HasLine(label) == \E i \in 1..Len(stdout) : stdout[i].label = label

NamePrompt == "\nEnter your Minecraft username: "

\* the lines of the final block that no earlier print shares
FinalBlockLabels ==
    {"\n=", "Final Stats for ", "Mining Points: ", "Combat Points: ",
     "Achievement Bonus: ", "Total Score: "}

\* C29: the username prompt is on the screen only if the three conversions,
\* the sum and the formatting have succeeded, the final block only if the
\* record has been built; a workflow aborted at step k has printed the
\* progress lines of the conversions before k, no later one, and nothing of
\* the final block.
C29_PromptAndPrintOrder ==
    /\ HasLine(NamePrompt) =>
          /\ Len(done) >= 5
          /\ \A i \in 1..5 : done[i].ok
          /\ score_display # Unbound
    /\ (\E l \in FinalBlockLabels : HasLine(l)) =>
          /\ player_stats # Unbound
          /\ Len(done) = 6
          /\ done[6] = [step |-> "record", ok |-> TRUE]
    /\ pc = "Aborted" =>
          /\ HasLine("Mining points: ") <=> Len(done) > 1
          /\ HasLine("Combat points: ") <=> Len(done) > 2
          /\ HasLine("Achievement bonus: ") <=> Len(done) > 3
          /\ \A l \in FinalBlockLabels : ~HasLine(l)

C29_Witness ==
    /\ pc = "Aborted"
    /\ Len(done) = 6
    /\ HasLine("Mining points: ")
    /\ HasLine("Combat points: ")
    /\ HasLine("Achievement bonus: ")
    /\ HasLine(NamePrompt)
    /\ ~HasLine("Final Stats for ")

\* digits, a point, digits
HasFraction(cs) ==
    \E i \in 2..(Len(cs) - 1) :
        /\ cs[i] = "."
        /\ \A k \in (i + 1)..Len(cs) : cs[k] \in ZeroToNine
        /\ \A k \in 1..(i - 1) : cs[k] \in ZeroToNine \/ (k = 1 /\ cs[k] = "-")

\* what convert_score_to_string owes an int or a float in either reading
FormatsNumber(fractionFor) ==
    (Called("convert_score_to_string") /\ args[1].type \in {"int", "float"}) =>
        /\ ~outcome.raised
        /\ outcome.val.type = "str"
        /\ (args[1].type = "int" /\ args[1].n < 0) =>
              /\ outcome.val.chars[1] = "-"
              /\ PlaceValue(Tail(outcome.val.chars), 10) = 0 - args[1].n
        /\ args[1].type = "float" =>
              /\ args[1].cls \in fractionFor => HasFraction(outcome.val.chars)
              /\ args[1].cls \notin fractionFor =>
                    outcome.val.chars \in {<<"n", "a", "n">>, <<"i", "n", "f">>,
                                           <<"-", "i", "n", "f">>}
              /\ ~IsDigitString(outcome.val.chars)
              /\ convert_string_to_int(outcome.val).raised

====
